---- MODULE Spec2Model ----
(***************************************************************************)
(* Model of NC/nc.py: a length-prefixed framed channel over one TCP        *)
(* stream (send_data / recv_data), the listener loop (listen) and the      *)
(* connecting peer's command loop (reverse_shell / exec_cmd).              *)
(*                                                                         *)
(* Text (Python str) is a sequence of code points, bytes a sequence of     *)
(* values 0..255.  A socket direction is the sequence of bytes written and *)
(* not yet read; sock.recv(n) returns any non-empty prefix of at most n    *)
(* of them (a stream delivers in arbitrary pieces), blocks while the       *)
(* direction is empty and the writer is open, and returns b'' once the     *)
(* writer has closed and everything was read.                              *)
(***************************************************************************)
EXTENDS Integers, Sequences, FiniteSets, TLC

(***************************************************************************)
(* Bounds of the model.                                                    *)
(***************************************************************************)
\* commands the operator may send in one session
MaxCmds == 2
\* keyboard interrupts delivered to the listener in one session
MaxInterrupts == 1
\* reads in one session that return fewer bytes than they could
MaxShortReads == 1
\* empty inputs at the prompt in one session
MaxIdle == 1
\* longest captured subprocess output in a session, in bytes
MaxOut == 1
\* longest captured subprocess output, and the commands received, when the
\* agent's loop is run on its own
MaxExecOut == 3
MaxExecCmds == 2
\* longest payload and largest chunk size tried on one framed channel
MaxLen == 4
MaxChunk == 3

(***************************************************************************)
(* Program constants.                                                      *)
(***************************************************************************)
\* recv_data(sock, buf_size=1024)
DefaultBufSize == 1024
\* x = sock.recv(4), struct 'i'
PrefixLen == 4

Min(a, b) == IF a < b THEN a ELSE b

\* marks a raised UnicodeDecodeError; no text contains a negative code point
DecodeError == <<-1>>

(***************************************************************************)
(* struct.pack('i', n) / struct.unpack('i', x)[0]: 4 bytes, two's          *)
(* complement, least significant byte first (the native order of the       *)
(* x86/ARM hosts the tool runs on).  pack raises struct.error outside the  *)
(* signed 32-bit range; every length of the model is far below it.         *)
(***************************************************************************)
struct_pack(n) ==
    << n % 256, (n \div 256) % 256, (n \div 65536) % 256, (n \div 16777216) % 256 >>

struct_unpack(x) ==
    LET low == x[1] + 256 * x[2] + 65536 * x[3]
    IN  IF x[4] < 128
        THEN low + 16777216 * x[4]
        ELSE (low + 16777216 * (x[4] - 128)) - 2147483647 - 1

(***************************************************************************)
(* str.encode("utf-8") and bytes.decode("utf-8") (strict).                 *)
(***************************************************************************)
Utf8Char(cp) ==
    IF cp < 128 THEN << cp >>
    ELSE IF cp < 2048 THEN << 192 + (cp \div 64), 128 + (cp % 64) >>
    ELSE IF cp < 65536
         THEN << 224 + (cp \div 4096), 128 + ((cp \div 64) % 64), 128 + (cp % 64) >>
    ELSE << 240 + (cp \div 262144), 128 + ((cp \div 4096) % 64),
            128 + ((cp \div 64) % 64), 128 + (cp % 64) >>

RECURSIVE encode_utf8(_)
encode_utf8(text) ==
    IF text = << >> THEN << >>
    ELSE Utf8Char(Head(text)) \o encode_utf8(Tail(text))

IsCont(b) == b >= 128 /\ b <= 191

\* length of the well-formed UTF-8 sequence that starts b, 0 if there is none
Utf8SeqLen(b) ==
    LET b0 == b[1]
        n  == Len(b)
    IN  IF b0 < 128 THEN 1
        ELSE IF b0 >= 194 /\ b0 <= 223
             THEN IF n >= 2 /\ IsCont(b[2]) THEN 2 ELSE 0
        ELSE IF b0 >= 224 /\ b0 <= 239
             THEN IF /\ n >= 3
                     /\ IsCont(b[2]) /\ IsCont(b[3])
                     /\ (b0 = 224 => b[2] >= 160)
                     /\ (b0 = 237 => b[2] <= 159)
                  THEN 3 ELSE 0
        ELSE IF b0 >= 240 /\ b0 <= 244
             THEN IF /\ n >= 4
                     /\ IsCont(b[2]) /\ IsCont(b[3]) /\ IsCont(b[4])
                     /\ (b0 = 240 => b[2] >= 144)
                     /\ (b0 = 244 => b[2] <= 143)
                  THEN 4 ELSE 0
        ELSE 0

Utf8CodePoint(b, k) ==
    IF k = 1 THEN b[1]
    ELSE IF k = 2 THEN (b[1] - 192) * 64 + (b[2] - 128)
    ELSE IF k = 3 THEN (b[1] - 224) * 4096 + (b[2] - 128) * 64 + (b[3] - 128)
    ELSE (b[1] - 240) * 262144 + (b[2] - 128) * 4096 + (b[3] - 128) * 64 + (b[4] - 128)

RECURSIVE decode_utf8(_)
decode_utf8(b) ==
    IF b = << >> THEN << >>
    ELSE LET k == Utf8SeqLen(b)
         IN  IF k = 0 THEN DecodeError
             ELSE LET rest == decode_utf8(SubSeq(b, k + 1, Len(b)))
                  IN  IF rest = DecodeError THEN DecodeError
                      ELSE << Utf8CodePoint(b, k) >> \o rest

(***************************************************************************)
(* bytes.decode("gbk") (strict): a byte below 0x80 is itself; a lead byte  *)
(* 0x81..0xFE takes a trail byte 0x40..0xFE other than 0x7F and the pair   *)
(* is looked up in the code page.  GbkTable is the part of CPython's code  *)
(* page over the bytes the model's subprocess output is drawn from.        *)
(***************************************************************************)
GbkTable ==
    ( << 160, 160 >> :> 29259 ) @@ ( << 160, 196 >> :> 29319 ) @@
    ( << 160, 227 >> :> 29358 ) @@ ( << 196, 160 >> :> 33235 ) @@
    ( << 196, 196 >> :> 21738 ) @@ ( << 196, 227 >> :> 20320 ) @@
    ( << 227, 160 >> :> 37543 ) @@ ( << 227, 196 >> :> 38579 ) @@
    ( << 227, 227 >> :> 27811 )

GbkSeqLen(b) ==
    IF b[1] < 128 THEN 1
    ELSE IF /\ b[1] >= 129 /\ b[1] <= 254
            /\ Len(b) >= 2
            /\ b[2] >= 64 /\ b[2] <= 254 /\ b[2] # 127
            /\ << b[1], b[2] >> \in DOMAIN GbkTable
         THEN 2
    ELSE 0

RECURSIVE decode_gbk(_)
decode_gbk(b) ==
    IF b = << >> THEN << >>
    ELSE LET k == GbkSeqLen(b)
         IN  IF k = 0 THEN DecodeError
             ELSE LET rest == decode_gbk(SubSeq(b, k + 1, Len(b)))
                  IN  IF rest = DecodeError THEN DecodeError
                      ELSE << IF k = 1 THEN b[1] ELSE GbkTable[<< b[1], b[2] >>] >>
                           \o rest

\* bytes.decode(code_flag)
decode(b, flag) == IF flag = "gbk" THEN decode_gbk(b) ELSE decode_utf8(b)

(***************************************************************************)
(* str.strip() and str.lower().                                            *)
(***************************************************************************)
\* the code points for which str.isspace() is true
Whitespace ==
    (9 .. 13) \cup (28 .. 32) \cup {133, 160, 5760} \cup (8192 .. 8202)
        \cup {8232, 8233, 8239, 8287, 12288}

RECURSIVE lstrip(_)
lstrip(text) ==
    IF text # << >> /\ Head(text) \in Whitespace THEN lstrip(Tail(text)) ELSE text

RECURSIVE rstrip(_)
rstrip(text) ==
    IF text # << >> /\ text[Len(text)] \in Whitespace
    THEN rstrip(SubSeq(text, 1, Len(text) - 1))
    ELSE text

strip(text) == rstrip(lstrip(text))

\* str.lower() on the ASCII letters (operator input of the model is ASCII)
lower(text) ==
    [ i \in 1 .. Len(text) |->
        IF text[i] >= 65 /\ text[i] <= 90 THEN text[i] + 32 ELSE text[i] ]


(***************************************************************************)
(* The socket: one direction of the stream is the bytes written and not    *)
(* yet read, with a flag telling whether the writer still holds it open.   *)
(* sock_recv is the set of byte counts one sock.recv(n) may return.        *)
(* MaxShortReads bounds how many reads of one session come back short.     *)
(***************************************************************************)
sock_recv(stream, open, n) ==
    IF Len(stream) > 0 THEN 1 .. Min(n, Len(stream))
    ELSE IF open THEN { }
    ELSE { 0 }

\* a read that returns fewer bytes than were asked for and were there
is_short(stream, n, k) == k < Min(n, Len(stream))

Take(stream, k) == SubSeq(stream, 1, k)
Drop(stream, k) == SubSeq(stream, k + 1, Len(stream))

(***************************************************************************)
(* send_data(sock, data): data is [type, val], type "str" or "bytes".      *)
(***************************************************************************)
Str(text)   == [ type |-> "str",   val |-> text ]
Bytes(b)    == [ type |-> "bytes", val |-> b ]

\* lines 48-49
send_data_payload(data) ==
    IF data.type = "str" THEN encode_utf8(data.val) ELSE data.val

\* line 50
send_data_cmd_len(data) == struct_pack(Len(send_data_payload(data)))

(***************************************************************************)
(* recv_data(sock, buf_size): the state of one call.  pc is "prefix"       *)
(* before sock.recv(4), "loop" at a sock.recv(buf_size) of the while loop, *)
(* "return" once the loop test fails, "raise" when struct.unpack rejects   *)
(* a short prefix.                                                         *)
(***************************************************************************)
recv_data_start ==
    [ pc |-> "prefix", all_size |-> 0, recv_size |-> 0, data |-> << >> ]

\* a variant of line 40 with <= for <: one more read when recv_size reaches
\* all_size
recv_data_more_le(recv_size, all_size) == recv_size <= all_size

\* line 40: while recv_size < all_size
recv_data_more(recv_size, all_size) == recv_size < all_size

\* lines 36-40, x the result of sock.recv(4)
recv_data_prefix(x) ==
    IF Len(x) # PrefixLen
    THEN [ pc |-> "raise", all_size |-> 0, recv_size |-> 0, data |-> << >> ]
    ELSE [ pc        |-> IF recv_data_more(0, struct_unpack(x))
                         THEN "loop" ELSE "return",
           all_size  |-> struct_unpack(x),
           recv_size |-> 0,
           data      |-> << >> ]

\* lines 41-42 and the loop test, chunk the result of sock.recv(buf_size)
recv_data_read(rd, chunk, buf_size) ==
    [ pc        |-> IF recv_data_more(rd.recv_size + buf_size, rd.all_size)
                    THEN "loop" ELSE "return",
      all_size  |-> rd.all_size,
      recv_size |-> rd.recv_size + buf_size,
      data      |-> rd.data \o chunk ]

\* lines 40-42 once the writer has closed and everything was read: every
\* further sock.recv returns b'' at once, so the loop adds nothing to data
\* and counts recv_size up until the test fails; taken as one step
recv_data_eof(rd, buf_size) ==
    [ pc        |-> "return",
      all_size  |-> rd.all_size,
      recv_size |-> rd.recv_size
                      + buf_size * (((rd.all_size - rd.recv_size - 1) \div buf_size) + 1),
      data      |-> rd.data ]

recv_data_chunk(rd, chunk, buf_size) ==
    IF chunk = << >> THEN recv_data_eof(rd, buf_size)
    ELSE recv_data_read(rd, chunk, buf_size)

(***************************************************************************)
(* exec_cmd(command, code_flag).  The host is the directories that exist,  *)
(* the process's current directory and what a spawned shell writes to its  *)
(* two pipes.                                                              *)
(***************************************************************************)
\* "/", "/tmp", "/tmp/a": the directories of the host
Root == << 47 >>
Tmp  == << 47, 116, 109, 112 >>
TmpA == << 47, 116, 109, 112, 47, 97 >>
Dirs == { Root, Tmp, TmpA }

\* os.chdir raised (FileNotFoundError, NotADirectoryError, ValueError)
NoDir == << -2 >>

RECURSIVE TrimSlash(_)
TrimSlash(path) ==
    IF Len(path) > 1 /\ path[Len(path)] = 47
    THEN TrimSlash(SubSeq(path, 1, Len(path) - 1))
    ELSE path

RECURSIVE Parent(_)
Parent(dir) ==
    IF Len(dir) <= 1 THEN Root
    ELSE IF dir[Len(dir)] = 47 THEN TrimSlash(dir)
    ELSE Parent(SubSeq(dir, 1, Len(dir) - 1))

\* line 12-13: os.chdir(path) from directory dir, then os.getcwd()
os_chdir(dir, path) ==
    IF path = << >> \/ (\E i \in 1 .. Len(path) : path[i] = 0) THEN NoDir
    ELSE LET p == TrimSlash(path)
             to == IF p[1] = 47 THEN p
                   ELSE IF p = << 46 >> THEN dir
                   ELSE IF p = << 46, 46 >> THEN Parent(dir)
                   ELSE IF dir = Root THEN Root \o p
                   ELSE dir \o << 47 >> \o p
         IN  IF to \in Dirs THEN to ELSE NoDir

\* "cd"
Cd == << 99, 100 >>
\* line 14: f"切换到 {cmd_path} 路径下"
MsgChanged(cmd_path) ==
    << 20999, 25442, 21040, 32 >> \o cmd_path \o << 32, 36335, 24452, 19979 >>
\* line 16: f"系统找不到指定的路径: {command[3:]}"
MsgNotFound(path) ==
    << 31995, 32479, 25214, 19981, 21040, 25351, 23450, 30340, 36335, 24452, 58, 32 >>
        \o path
\* line 22: f"{command} 执行成功"
MsgDone(command) == command \o << 32, 25191, 34892, 25104, 21151 >>

\* a variant of lines 27-30 with "if" for "elif": gbk becomes utf-8 and
\* then gbk again
other_flag_if(code_flag) == "gbk"

\* lines 27-30: the other candidate encoding
other_flag(code_flag) ==
    IF code_flag = "gbk" THEN "utf-8"
    ELSE IF code_flag = "utf-8" THEN "gbk"
    ELSE code_flag

\* a variant of line 10 without the test of the length
is_cd_prefix(command) == Take(command, Min(2, Len(command))) = Cd

\* line 10
is_cd(command) == Take(command, Min(2, Len(command))) = Cd /\ Len(command) > 2

\* a variant of lines 11-16 that takes command[2:] as the path
exec_cd_from2(command, dir) ==
    LET to == os_chdir(dir, Drop(command, 2))
    IN  [ raised   |-> "none",
          branch   |-> "cd",
          changed  |-> to # NoDir,
          cwd      |-> IF to # NoDir THEN to ELSE dir,
          spawn    |-> NoDir,
          attempts |-> 0,
          arg      |-> Drop(command, 2),
          ret      |-> strip(IF to # NoDir THEN MsgChanged(to)
                             ELSE MsgNotFound(Drop(command, 2))) ]

\* a variant of lines 11-16 whose except branch goes back to "/"
exec_cd_reset(command, dir) ==
    LET to == os_chdir(dir, Drop(command, 3))
    IN  [ raised   |-> "none",
          branch   |-> "cd",
          changed  |-> to # NoDir,
          cwd      |-> IF to # NoDir THEN to ELSE Root,
          spawn    |-> NoDir,
          attempts |-> 0,
          arg      |-> Drop(command, 3),
          ret      |-> strip(IF to # NoDir THEN MsgChanged(to)
                             ELSE MsgNotFound(Drop(command, 3))) ]

\* lines 11-16; the directory is left alone when os.chdir raises
exec_cd(command, dir) ==
    LET to == os_chdir(dir, Drop(command, 3))
    IN  [ raised   |-> "none",
          branch   |-> "cd",
          changed  |-> to # NoDir,
          cwd      |-> IF to # NoDir THEN to ELSE dir,
          spawn    |-> NoDir,
          attempts |-> 0,
          arg      |-> Drop(command, 3),
          ret      |-> strip(IF to # NoDir THEN MsgChanged(to)
                             ELSE MsgNotFound(Drop(command, 3))) ]

\* a variant of lines 18-31 without lines 21-22: empty output is decoded
\* like any other
exec_shell_plain(command, code_flag, dir, out) ==
    LET first  == decode(out, code_flag)
        second == decode(out, other_flag(code_flag))
        base   == [ raised |-> "none", branch |-> "shell", changed |-> FALSE,
                    cwd |-> dir, spawn |-> dir, attempts |-> 0, ret |-> << >>,
                    arg |-> command ]
    IN  IF \E i \in 1 .. Len(command) : command[i] = 0
        THEN [ base EXCEPT !.raised = "popen", !.spawn = NoDir ]
        ELSE IF first # DecodeError
        THEN [ base EXCEPT !.attempts = 1, !.ret = strip(first) ]
        ELSE IF second # DecodeError
        THEN [ base EXCEPT !.attempts = 2, !.ret = strip(second) ]
        ELSE [ base EXCEPT !.attempts = 2, !.raised = "decode" ]

\* a variant of lines 18-31 whose second decode replaces what it cannot
\* decode (errors="replace") and so never raises
exec_shell_replace(command, code_flag, dir, out) ==
    LET first  == decode(out, code_flag)
        second == decode(out, other_flag(code_flag))
        base   == [ raised |-> "none", branch |-> "shell", changed |-> FALSE,
                    cwd |-> dir, spawn |-> dir, attempts |-> 0, ret |-> << >>,
                    arg |-> command ]
    IN  IF \E i \in 1 .. Len(command) : command[i] = 0
        THEN [ base EXCEPT !.raised = "popen", !.spawn = NoDir ]
        ELSE IF out = << >>
        THEN [ base EXCEPT !.ret = strip(MsgDone(command)) ]
        ELSE IF first # DecodeError
        THEN [ base EXCEPT !.attempts = 1, !.ret = strip(first) ]
        ELSE IF second # DecodeError
        THEN [ base EXCEPT !.attempts = 2, !.ret = strip(second) ]
        ELSE [ base EXCEPT !.attempts = 2, !.ret = << 65533 >> ]

\* lines 18-31; out is obj.stdout.read() + obj.stderr.read()
exec_shell(command, code_flag, dir, out) ==
    LET first  == decode(out, code_flag)
        second == decode(out, other_flag(code_flag))
        base   == [ raised |-> "none", branch |-> "shell", changed |-> FALSE,
                    cwd |-> dir, spawn |-> dir, attempts |-> 0, ret |-> << >>,
                    arg |-> command ]
    IN  IF \E i \in 1 .. Len(command) : command[i] = 0
        THEN \* subprocess.Popen: ValueError, embedded null byte
             [ base EXCEPT !.raised = "popen", !.spawn = NoDir ]
        ELSE IF out = << >>
        THEN [ base EXCEPT !.ret = strip(MsgDone(command)) ]
        ELSE IF first # DecodeError
        THEN [ base EXCEPT !.attempts = 1, !.ret = strip(first) ]
        ELSE IF second # DecodeError
        THEN [ base EXCEPT !.attempts = 2, !.ret = strip(second) ]
        ELSE [ base EXCEPT !.attempts = 2, !.raised = "decode" ]

\* whether exec_cmd reaches line 18 with a command Popen accepts, so that
\* there is a subprocess whose output the host supplies
spawns(data) ==
    LET command == decode_utf8(data)
    IN  /\ command # DecodeError
        /\ ~ is_cd(command)
        /\ \A i \in 1 .. Len(command) : command[i] # 0

\* lines 8-32; arg is what was handed to os.chdir or to subprocess.Popen
exec_cmd(data, code_flag, dir, out) ==
    LET command == decode_utf8(data)
    IN  IF command = DecodeError
        THEN [ raised |-> "command", branch |-> "none", changed |-> FALSE,
               cwd |-> dir, spawn |-> NoDir, attempts |-> 0, ret |-> << >>,
               arg |-> << >> ]
        ELSE IF is_cd(command) THEN exec_cd(command, dir)
        ELSE exec_shell(command, code_flag, dir, out)

(***************************************************************************)
(* What the environment may supply.                                        *)
(***************************************************************************)
SeqsUpTo(S, n) == UNION { [ 1 .. k -> S ] : k \in 0 .. n }

\* lines the operator may type at the prompt: "", " ", "ls", " quit ",
\* "Quit", "cd /tmp", "cd /no"
Quit == << 113, 117, 105, 116 >>
Inputs ==
    { << >>, << 32 >>, << 108, 115 >>, << 32 >> \o Quit \o << 32 >>,
      << 81, 117, 105, 116 >>,
      Cd \o << 32 >> \o Tmp, Cd \o << 32, 47, 110, 111 >> }

\* bytes a subprocess may write: a space, and bytes that make sequences
\* valid under one, both or neither of gbk and utf-8
OutBytes == { 32, 160, 196, 227, 255 }
\* (stdout, stderr) of one subprocess that writes at most n bytes
Outputs(n) ==
    UNION { { << Take(o, k), Drop(o, k) >> : k \in 0 .. Len(o) } :
            o \in SeqsUpTo(OutBytes, n) }

\* payload bytes and text code points tried on the framed channel alone
FrameBytes == { 0, 65 }
FrameChars == { 65, 233 }
FrameData ==
    { Bytes(b) : b \in SeqsUpTo(FrameBytes, MaxLen) }
        \cup { Str(t) : t \in SeqsUpTo(FrameChars, MaxLen \div 2) }

VARIABLES
    \* listen(): position, the stripped input, its recv_data call, the last
    \* text printed, whether conn is open
    l_pc, cmd, l_rd, printed, l_open,
    \* reverse_shell(): position, its recv_data call, the result of exec_cmd,
    \* the default encoding, the process's current directory, whether sock
    \* is open
    r_pc, r_rd, res, code_flag, cwd, r_open,
    \* the two directions of the connection
    to_agent, to_listen,
    \* observations: counters of completed operations (c_sent, c_quit: frames
    \* and quit frames the listener sent; c_recv: frames it received; a_recv,
    \* a_quit, a_sent: the same for the agent; n_exec: exec_cmd calls; cds:
    \* os.chdir calls that did not raise, and cd_dir the directory of the last
    \* of them; line: what input() last returned; c_cmds: the payloads of the
    \* Commands other than quit the listener sent; a_cmds: the payloads
    \* exec_cmd was called with; c_print: the Results printed), and the last
    \* exec_cmd call
    obs, last_exec,
    \* one framed channel on its own: the send_data calls the sender makes,
    \* the index of the next one and the sender's position in it, the
    \* stream, whether the sender holds it open, the receiver's buf_size and
    \* recv_data call
    h_queue, h_i, h_spc, h_sock, h_open, h_buf, h_rd

lvars == << l_pc, cmd, l_rd, printed, l_open >>
rvars == << r_pc, r_rd, res, code_flag, cwd, r_open >>
svars == << lvars, rvars, to_agent, to_listen, obs, last_exec >>
hvars == << h_queue, h_i, h_spc, h_sock, h_open, h_buf, h_rd >>
vars  == << svars, hvars >>

NoExec ==
    [ raised |-> "none", branch |-> "none", changed |-> FALSE, cwd |-> NoDir,
      spawn |-> NoDir, attempts |-> 0, ret |-> << >>, arg |-> << >>,
      data |-> << >>, out |-> << >>, before |-> NoDir, flag |-> "none",
      sent |-> 0, recv |-> 0 ]

\* the session is not running
SessionOff ==
    /\ l_pc = "off" /\ cmd = << >> /\ l_rd = recv_data_start /\ printed = << >>
    /\ l_open = FALSE
    /\ r_pc = "off" /\ r_rd = recv_data_start /\ res = << >> /\ code_flag = "utf-8"
    /\ cwd = Root /\ r_open = FALSE
    /\ to_agent = << >> /\ to_listen = << >>
    /\ obs = [ inputs |-> 0, idle |-> 0, interrupts |-> 0, intr_at |-> "none", short |-> 0,
               c_sent |-> 0, c_quit |-> 0, c_recv |-> 0,
               a_recv |-> 0, a_quit |-> 0, a_sent |-> 0, n_exec |-> 0,
               cd_dir |-> Root, cds |-> 0, line |-> << >>,
               c_cmds |-> << >>, a_cmds |-> << >>, c_print |-> 0 ]
    /\ last_exec = NoExec

\* the lone framed channel is not in use
HarnessOff ==
    /\ h_queue = << >> /\ h_i = 1 /\ h_spc = "off" /\ h_sock = << >>
    /\ h_open = FALSE /\ h_buf = DefaultBufSize /\ h_rd = recv_data_start

(***************************************************************************)
(* The session: listen() has accepted the connection made by               *)
(* reverse_shell(), which has chosen code_flag from os.name (line 78).     *)
(***************************************************************************)
Init ==
    /\ l_pc = "input" /\ cmd = << >> /\ l_rd = recv_data_start /\ printed = << >>
    /\ l_open = TRUE
    /\ r_pc = "recv_data" /\ r_rd = recv_data_start /\ res = << >>
    /\ code_flag \in { "gbk", "utf-8" }
    /\ cwd = Root /\ r_open = TRUE
    /\ to_agent = << >> /\ to_listen = << >>
    /\ obs = [ inputs |-> 0, idle |-> 0, interrupts |-> 0, intr_at |-> "none", short |-> 0,
               c_sent |-> 0, c_quit |-> 0, c_recv |-> 0,
               a_recv |-> 0, a_quit |-> 0, a_sent |-> 0, n_exec |-> 0,
               cd_dir |-> Root, cds |-> 0, line |-> << >>,
               c_cmds |-> << >>, a_cmds |-> << >>, c_print |-> 0 ]
    /\ last_exec = NoExec
    /\ HarnessOff

\* a read of the session that returns k bytes: short reads are counted and
\* bounded
ShortRead(stream, n, k) ==
    IF is_short(stream, n, k)
    THEN /\ obs.short < MaxShortReads
         /\ obs' = [ obs EXCEPT !.short = @ + 1 ]
    ELSE UNCHANGED obs

(***************************************************************************)
(* listen(), lines 60-71.                                                  *)
(***************************************************************************)
\* an exception other than KeyboardInterrupt leaves listen(): the process
\* ends and its sockets close
l_Raise ==
    /\ l_pc' = "crashed"
    /\ l_open' = FALSE
    /\ l_rd' = recv_data_start

\* a variant of lines 62-63 without line 63: an empty command is sent like
\* any other
l_Input_NoSkip ==
    /\ l_pc = "input"
    /\ \E line \in Inputs :
          /\ cmd' = strip(line)
          /\ obs.inputs < MaxCmds
          /\ obs' = [ obs EXCEPT !.inputs = @ + 1, !.line = line ]
          /\ l_pc' = "send_len"
    /\ UNCHANGED << l_rd, printed, l_open, rvars, to_agent, to_listen, last_exec, hvars >>

\* lines 62-63: input(...).strip(), an empty command prompts again
l_Input ==
    /\ l_pc = "input"
    /\ \E line \in Inputs :
          LET c == strip(line)
          IN  /\ cmd' = c
              /\ IF c = << >>
                 THEN /\ obs.idle < MaxIdle
                      /\ obs' = [ obs EXCEPT !.idle = @ + 1, !.line = line ]
                      /\ UNCHANGED l_pc
                 ELSE /\ obs.inputs < MaxCmds
                      /\ obs' = [ obs EXCEPT !.inputs = @ + 1, !.line = line ]
                      /\ l_pc' = "send_len"
    /\ UNCHANGED << l_rd, printed, l_open, rvars, to_agent, to_listen, last_exec, hvars >>

\* line 62: input() raises EOFError when the operator's terminal closes
l_EOF ==
    /\ l_pc = "input"
    /\ l_Raise
    /\ UNCHANGED << cmd, printed, rvars, to_agent, to_listen, obs, last_exec, hvars >>

\* line 64, send_data line 51: sock.send(cmd_len).  Writing to a connection
\* the peer has closed is either accepted and lost or raises.
l_SendLen ==
    /\ l_pc = "send_len"
    /\ \/ /\ to_agent' = IF r_open THEN to_agent \o send_data_cmd_len(Str(cmd))
                         ELSE to_agent
          /\ l_pc' = "send_body"
          /\ UNCHANGED << l_rd, l_open >>
       \/ /\ ~ r_open
          /\ l_Raise
          /\ UNCHANGED to_agent
    /\ UNCHANGED << cmd, printed, rvars, to_listen, obs, last_exec, hvars >>

\* line 65
is_quit(c) == lower(c) = Quit

\* line 64, send_data line 52: sock.send(data)
l_SendBody ==
    /\ l_pc = "send_body"
    /\ \/ /\ to_agent' = IF r_open THEN to_agent \o send_data_payload(Str(cmd))
                         ELSE to_agent
          /\ l_pc' = "sent"
          /\ obs' = [ obs EXCEPT !.c_sent = @ + 1,
                                 !.c_quit = IF is_quit(cmd) THEN @ + 1 ELSE @,
                                 !.c_cmds = IF is_quit(cmd) THEN @
                                            ELSE Append(@, encode_utf8(cmd)) ]
          /\ UNCHANGED << l_rd, l_open >>
       \/ /\ ~ r_open
          /\ l_Raise
          /\ UNCHANGED << to_agent, obs >>
    /\ UNCHANGED << cmd, printed, rvars, to_listen, last_exec, hvars >>

\* lines 65-68: close and return on quit, otherwise call recv_data(conn);
\* cmd is not read again before line 62 assigns it
l_AfterSend ==
    /\ l_pc = "sent"
    /\ IF is_quit(cmd)
       THEN /\ l_pc' = "closed"
            /\ l_open' = FALSE
            /\ UNCHANGED << cmd, l_rd >>
       ELSE /\ l_pc' = "recv_data"
            /\ l_rd' = recv_data_start
            /\ cmd' = << >>
            /\ UNCHANGED l_open
    /\ UNCHANGED << printed, rvars, to_agent, to_listen, obs, last_exec, hvars >>

\* line 68, recv_data lines 36-40
l_RecvPrefix ==
    /\ l_pc = "recv_data" /\ l_rd.pc = "prefix"
    /\ \E k \in sock_recv(to_listen, r_open, PrefixLen) :
          LET rd == recv_data_prefix(Take(to_listen, k))
          IN  /\ ShortRead(to_listen, PrefixLen, k)
              /\ to_listen' = Drop(to_listen, k)
              /\ IF rd.pc = "raise"
                 THEN l_Raise
                 ELSE /\ l_rd' = rd
                      /\ UNCHANGED << l_pc, l_open >>
    /\ UNCHANGED << cmd, printed, rvars, to_agent, last_exec, hvars >>

\* line 68, recv_data lines 41-42
l_RecvChunk ==
    /\ l_pc = "recv_data" /\ l_rd.pc = "loop"
    /\ \E k \in sock_recv(to_listen, r_open, DefaultBufSize) :
          /\ ShortRead(to_listen, DefaultBufSize, k)
          /\ to_listen' = Drop(to_listen, k)
          /\ l_rd' = recv_data_chunk(l_rd, Take(to_listen, k), DefaultBufSize)
    /\ UNCHANGED << l_pc, cmd, printed, l_open, rvars, to_agent, last_exec, hvars >>

\* line 68, recv_data line 43
l_RecvReturn ==
    /\ l_pc = "recv_data" /\ l_rd.pc = "return"
    /\ l_pc' = "print"
    /\ obs' = [ obs EXCEPT !.c_recv = @ + 1 ]
    /\ UNCHANGED << cmd, l_rd, printed, l_open, rvars, to_agent, to_listen, last_exec, hvars >>

\* line 69: print(res.decode("utf-8"))
l_Print ==
    /\ l_pc = "print"
    /\ IF decode_utf8(l_rd.data) = DecodeError
       THEN /\ l_Raise
            /\ UNCHANGED << printed, obs >>
       ELSE /\ printed' = decode_utf8(l_rd.data)
            /\ l_pc' = "input"
            /\ l_rd' = recv_data_start
            /\ obs' = [ obs EXCEPT !.c_print = @ + 1 ]
            /\ UNCHANGED l_open
    /\ UNCHANGED << cmd, rvars, to_agent, to_listen, last_exec, hvars >>

\* the positions inside the try block of lines 61-69
InTry == { "input", "send_len", "send_body", "sent", "recv_data", "print" }

\* a variant of lines 70-71 without the handler: KeyboardInterrupt leaves
\* listen() like any other exception
l_Interrupt_Fatal ==
    /\ l_pc \in InTry
    /\ obs.interrupts < MaxInterrupts
    /\ obs' = [ obs EXCEPT !.interrupts = @ + 1, !.intr_at = l_pc ]
    /\ l_Raise
    /\ UNCHANGED << cmd, printed, rvars, to_agent, to_listen, last_exec, hvars >>

\* lines 70-71: KeyboardInterrupt anywhere in the try block, continue
l_Interrupt ==
    /\ l_pc \in InTry
    /\ obs.interrupts < MaxInterrupts
    /\ obs' = [ obs EXCEPT !.interrupts = @ + 1, !.intr_at = l_pc ]
    /\ l_pc' = "input"
    /\ l_rd' = recv_data_start
    /\ UNCHANGED << cmd, printed, l_open, rvars, to_agent, to_listen, last_exec, hvars >>

(***************************************************************************)
(* reverse_shell(), lines 79-84, and main() line 93.                       *)
(***************************************************************************)
\* an exception leaves reverse_shell(): the process ends, its socket closes
r_Raise ==
    /\ r_pc' = "crashed"
    /\ r_open' = FALSE
    /\ r_rd' = recv_data_start

\* line 80, recv_data lines 36-40
r_RecvPrefix ==
    /\ r_pc = "recv_data" /\ r_rd.pc = "prefix"
    /\ \E k \in sock_recv(to_agent, l_open, PrefixLen) :
          LET rd == recv_data_prefix(Take(to_agent, k))
          IN  /\ ShortRead(to_agent, PrefixLen, k)
              /\ to_agent' = Drop(to_agent, k)
              /\ IF rd.pc = "raise"
                 THEN r_Raise
                 ELSE /\ r_rd' = rd
                      /\ UNCHANGED << r_pc, r_open >>
    /\ UNCHANGED << res, code_flag, cwd, lvars, to_listen, last_exec, hvars >>

\* line 80, recv_data lines 41-42
r_RecvChunk ==
    /\ r_pc = "recv_data" /\ r_rd.pc = "loop"
    /\ \E k \in sock_recv(to_agent, l_open, DefaultBufSize) :
          /\ ShortRead(to_agent, DefaultBufSize, k)
          /\ to_agent' = Drop(to_agent, k)
          /\ r_rd' = recv_data_chunk(r_rd, Take(to_agent, k), DefaultBufSize)
    /\ UNCHANGED << r_pc, res, code_flag, cwd, r_open, lvars, to_listen, last_exec, hvars >>

\* line 81
is_quit_frame(data) == data = Quit

\* what is kept of one exec_cmd call: its outcome e, the payload it was
\* given, the bytes captured from the subprocess if one was spawned, the
\* directory and Result count before it, the count of frames received with it
Observe(e, data, out, dir, flag, sent, recv) ==
    [ raised |-> e.raised, branch |-> e.branch, changed |-> e.changed,
      cwd |-> e.cwd, spawn |-> e.spawn, attempts |-> e.attempts, ret |-> e.ret,
      arg |-> e.arg,
      data |-> data,
      out |-> IF e.spawn # NoDir THEN out ELSE << >>,
      before |-> dir, flag |-> flag, sent |-> sent, recv |-> recv ]

\* lines 80-83: recv_data returns; break on b'quit' (then main closes the
\* socket), otherwise exec_cmd(data, code_flag)
Dispatch(outs) ==
    /\ r_pc = "recv_data" /\ r_rd.pc = "return"
    /\ IF is_quit_frame(r_rd.data)
       THEN /\ r_pc' = "closed"
            /\ r_open' = FALSE
            /\ r_rd' = recv_data_start
            /\ obs' = [ obs EXCEPT !.a_recv = @ + 1, !.a_quit = @ + 1 ]
            /\ UNCHANGED << res, cwd, last_exec >>
       ELSE \E o \in IF spawns(r_rd.data) THEN outs ELSE { << << >>, << >> >> } :
              LET e == exec_cmd(r_rd.data, code_flag, cwd, o[1] \o o[2])
              IN  /\ obs' = [ obs EXCEPT !.a_recv = @ + 1, !.n_exec = @ + 1,
                                         !.a_cmds = Append(@, r_rd.data),
                                         !.cd_dir = IF e.changed THEN e.cwd ELSE @,
                                         !.cds = IF e.changed THEN @ + 1 ELSE @ ]
                  /\ last_exec' = Observe(e, r_rd.data, o[1] \o o[2], cwd,
                                          code_flag, obs.a_sent, obs.a_recv + 1)
                  /\ cwd' = e.cwd
                  /\ IF e.raised # "none"
                     THEN /\ r_Raise
                          /\ UNCHANGED res
                     ELSE /\ res' = e.ret
                          /\ r_pc' = "send_len"
                          /\ r_rd' = recv_data_start
                          /\ UNCHANGED r_open
    /\ UNCHANGED << code_flag, lvars, to_agent, to_listen, hvars >>

SessionOutputs == Outputs(MaxOut)
r_Dispatch == Dispatch(SessionOutputs)

\* line 84, send_data line 51
r_SendLen ==
    /\ r_pc = "send_len"
    /\ \/ /\ to_listen' = IF l_open THEN to_listen \o send_data_cmd_len(Str(res))
                          ELSE to_listen
          /\ r_pc' = "send_body"
          /\ UNCHANGED << r_rd, r_open >>
       \/ /\ ~ l_open
          /\ r_Raise
          /\ UNCHANGED to_listen
    /\ UNCHANGED << res, code_flag, cwd, lvars, to_agent, obs, last_exec, hvars >>

\* line 84, send_data line 52, and back to line 80; res is not read again
\* before line 83 assigns it
r_SendBody ==
    /\ r_pc = "send_body"
    /\ \/ /\ to_listen' = IF l_open THEN to_listen \o send_data_payload(Str(res))
                          ELSE to_listen
          /\ r_pc' = "recv_data"
          /\ obs' = [ obs EXCEPT !.a_sent = @ + 1 ]
          /\ UNCHANGED << r_rd, r_open >>
       \/ /\ ~ l_open
          /\ r_Raise
          /\ UNCHANGED << to_listen, obs >>
    /\ res' = << >>
    /\ UNCHANGED << code_flag, cwd, lvars, to_agent, last_exec, hvars >>

Next ==
    \/ l_Input \/ l_EOF \/ l_SendLen \/ l_SendBody \/ l_AfterSend
    \/ l_RecvPrefix \/ l_RecvChunk \/ l_RecvReturn \/ l_Print \/ l_Interrupt
    \/ r_RecvPrefix \/ r_RecvChunk \/ r_Dispatch \/ r_SendLen \/ r_SendBody

Spec == Init /\ [][Next]_vars

\* The session with its scheduling: a step of either peer that does not wait
\* for the operator is taken if it stays possible (both processes run, a
\* byte written to the connection can be read, a spawned command ends).
\* What the operator does (a line, end of input, Ctrl-C) is not forced.
Fairness ==
    /\ WF_vars(l_SendLen) /\ WF_vars(l_SendBody) /\ WF_vars(l_AfterSend)
    /\ WF_vars(l_RecvPrefix) /\ WF_vars(l_RecvChunk) /\ WF_vars(l_RecvReturn)
    /\ WF_vars(l_Print)
    /\ WF_vars(r_RecvPrefix) /\ WF_vars(r_RecvChunk) /\ WF_vars(r_Dispatch)
    /\ WF_vars(r_SendLen) /\ WF_vars(r_SendBody)

LiveSpec == Init /\ [][Next]_vars /\ Fairness

(***************************************************************************)
(* One framed channel on its own: a sender makes the send_data calls of    *)
(* h_queue in order and may close at any point (main line 93, or the end   *)
(* of its process); a receiver makes one recv_data(sock, h_buf) call.      *)
(***************************************************************************)
\* what may follow the first frame on the stream
NextFrame == Bytes(<< 65 >>)

FrameInit ==
    /\ SessionOff
    /\ h_queue \in { << d >> : d \in FrameData } \cup { << d, NextFrame >> : d \in FrameData }
    /\ h_i = 1
    /\ h_spc = "send_len"
    /\ h_sock = << >>
    /\ h_open = TRUE
    /\ h_buf \in 1 .. MaxChunk
    /\ h_rd = recv_data_start

\* send_data line 51
h_SendLen ==
    /\ h_open /\ h_i <= Len(h_queue)
    /\ h_spc = "send_len"
    /\ h_sock' = h_sock \o send_data_cmd_len(h_queue[h_i])
    /\ h_spc' = "send_body"
    /\ UNCHANGED << h_queue, h_i, h_open, h_buf, h_rd, svars >>

\* send_data line 52
h_SendBody ==
    /\ h_open /\ h_i <= Len(h_queue)
    /\ h_spc = "send_body"
    /\ h_sock' = h_sock \o send_data_payload(h_queue[h_i])
    /\ h_i' = h_i + 1
    /\ h_spc' = "send_len"
    /\ UNCHANGED << h_queue, h_open, h_buf, h_rd, svars >>

\* the sender closes its socket, wherever it is
h_Close ==
    /\ h_open
    /\ h_open' = FALSE
    /\ UNCHANGED << h_queue, h_i, h_spc, h_sock, h_buf, h_rd, svars >>

\* recv_data lines 36-40
h_RecvPrefix ==
    /\ h_rd.pc = "prefix"
    /\ \E k \in sock_recv(h_sock, h_open, PrefixLen) :
          /\ h_sock' = Drop(h_sock, k)
          /\ h_rd' = recv_data_prefix(Take(h_sock, k))
    /\ UNCHANGED << h_queue, h_i, h_spc, h_open, h_buf, svars >>

\* recv_data lines 41-42
h_RecvChunk ==
    /\ h_rd.pc = "loop"
    /\ \E k \in sock_recv(h_sock, h_open, h_buf) :
          /\ h_sock' = Drop(h_sock, k)
          /\ h_rd' = recv_data_chunk(h_rd, Take(h_sock, k), h_buf)
    /\ UNCHANGED << h_queue, h_i, h_spc, h_open, h_buf, svars >>

FrameNext == h_SendLen \/ h_SendBody \/ h_Close \/ h_RecvPrefix \/ h_RecvChunk

FrameSpec == FrameInit /\ [][FrameNext]_vars

(***************************************************************************)
(* The loop of reverse_shell() on its own: the peer writes whole Command   *)
(* frames one at a time, every read returns all that is there, and the     *)
(* peer takes each Result off the stream.                                  *)
(***************************************************************************)
\* payloads of the Command frames: "ls", "cd /tmp", "cd /no", "cd ..",
\* "cd a", "cd", "cd.", "quit", the empty payload, a NUL, a byte that is
\* not UTF-8
ExecData ==
    { << 108, 115 >>, Cd \o << 32 >> \o Tmp, Cd \o << 32, 47, 110, 111 >>,
      Cd \o << 32, 46, 46 >>, Cd \o << 32, 97 >>, Cd, Cd \o << 46 >>, Quit,
      << >>, << 108, 0 >>, << 255 >> }

ExecInit ==
    /\ l_pc = "off" /\ cmd = << >> /\ l_rd = recv_data_start /\ printed = << >>
    /\ l_open = TRUE
    /\ r_pc = "recv_data" /\ r_rd = recv_data_start /\ res = << >>
    /\ code_flag \in { "gbk", "utf-8" }
    /\ cwd \in Dirs /\ r_open = TRUE
    /\ to_agent = << >> /\ to_listen = << >>
    /\ obs = [ inputs |-> 0, idle |-> 0, interrupts |-> 0, intr_at |-> "none",
               short |-> MaxShortReads,
               c_sent |-> 0, c_quit |-> 0, c_recv |-> 0,
               a_recv |-> 0, a_quit |-> 0, a_sent |-> 0, n_exec |-> 0,
               cd_dir |-> cwd, cds |-> 0, line |-> << >>,
               c_cmds |-> << >>, a_cmds |-> << >>, c_print |-> 0 ]
    /\ last_exec = NoExec
    /\ HarnessOff

\* the peer's send_data(conn, d), lines 50-52; the call before this
\* Command is no longer observed
x_Feed ==
    /\ r_pc = "recv_data" /\ r_rd.pc = "prefix"
    /\ to_agent = << >> /\ to_listen = << >>
    /\ obs.inputs < MaxExecCmds
    /\ \E d \in ExecData :
          to_agent' = send_data_cmd_len(Bytes(d)) \o send_data_payload(Bytes(d))
    /\ obs' = [ obs EXCEPT !.inputs = @ + 1, !.c_sent = @ + 1, !.a_cmds = << >> ]
    /\ last_exec' = NoExec
    /\ UNCHANGED << lvars, rvars, to_listen, hvars >>

\* the peer's recv_data(conn) of a whole Result frame
x_Drain ==
    /\ r_pc = "recv_data"
    /\ to_listen # << >>
    /\ to_listen' = << >>
    /\ obs' = [ obs EXCEPT !.c_recv = @ + 1 ]
    /\ UNCHANGED << lvars, rvars, to_agent, last_exec, hvars >>

ExecOutputs == Outputs(MaxExecOut)
x_Dispatch == Dispatch(ExecOutputs)

ExecNext ==
    \/ x_Feed \/ x_Drain
    \/ r_RecvPrefix \/ r_RecvChunk \/ x_Dispatch \/ r_SendLen \/ r_SendBody

ExecSpec == ExecInit /\ [][ExecNext]_vars

(***************************************************************************)
(* Properties of the framed channel (FrameSpec).                           *)
(***************************************************************************)
\* the first frame's payload and its length N
h_first == send_data_payload(h_queue[1])
h_N     == Len(h_first)

\* send_data has written the first frame, nothing else is or will be on the
\* stream, and the sender still holds the connection open
OneFrameOnly == Len(h_queue) = 1 /\ h_i = 2 /\ h_open

\* C1: a payload B written as one frame by send_data on a stream that
\* carries nothing else is returned exactly (text as its UTF-8 bytes) by
\* recv_data, for every chunk size that evenly divides its length
C1_RoundTrip ==
    ( /\ h_rd.pc = "return"
      /\ OneFrameOnly
      /\ h_N % h_buf = 0 )
        => h_rd.data = h_first

\* C2: when recv_data returns, it has read exactly as many payload bytes as
\* the prefix declared, however the stream split them across the reads
C2_ExactCount ==
    ( h_rd.pc = "return" /\ OneFrameOnly ) => Len(h_rd.data) = h_rd.all_size

\* a declared length of zero returns the empty payload and reads nothing
C2_ZeroLength ==
    ( h_rd.pc = "return" /\ h_rd.all_size = 0 )
        => ( h_rd.data = << >> /\ h_rd.recv_size = 0 )

\* the sender closed before it had written all of the first frame
ClosedMidFrame ==
    /\ ~ h_open
    /\ h_i = 1
    /\ h_spc = "send_len" \/ ( h_spc = "send_body" /\ h_N > 0 )

\* C5: when the peer closes before the prefix or before all declared
\* payload bytes were written, recv_data returns no payload
C5_LossIsFatal == ClosedMidFrame => h_rd.pc # "return"

(***************************************************************************)
(* Properties of the session (Spec).                                       *)
(***************************************************************************)
\* frames written whole and not yet returned by the peer's recv_data
Outstanding == ( obs.c_sent - obs.a_recv ) + ( obs.a_sent - obs.c_recv )

\* C3: at most one frame is outstanding; the listener starts sending a
\* Command only when every non-quit Command it sent has had its Result
\* received; the agent, back at the top of its loop, has sent one Result
\* per non-quit Command it received.  Stated for the runs in which every
\* read returned all the bytes that were there and an interrupt, if any,
\* arrived while the listener was blocked in input() or in recv_data, so
\* that only operator input, such interrupts and the order of the two
\* peers' steps vary.
C3_TurnTaking ==
    ( obs.short = 0 /\ obs.intr_at \in { "none", "input", "recv_data" } ) =>
        /\ Outstanding <= 1
        /\ l_pc \in { "send_len", "send_body" } => obs.c_sent - obs.c_quit = obs.c_recv
        /\ r_pc = "recv_data" => obs.a_sent = obs.a_recv - obs.a_quit

\* the same without interrupts: the turns do alternate
C3_NoInterrupt == obs.interrupts = 0 => C3_TurnTaking

\* C4: after the operator entered "quit" and send_data returned, the
\* listener's next step closes the connection (and it receives nothing);
\* the agent's step on a returned payload b'quit' ends its loop and closes
\* its socket without exec_cmd and without a Result
C4_QuitSymmetry ==
    [][ /\ ( l_pc = "sent" /\ cmd = Quit /\ l_pc' # l_pc )
            => ( l_pc' = "closed" /\ ~ l_open' /\ obs'.c_recv = obs.c_recv )
        /\ ( r_pc = "recv_data" /\ r_rd.pc = "return" /\ r_rd.data = Quit /\ r_pc' # r_pc )
            => ( /\ r_pc' = "closed" /\ ~ r_open'
                 /\ obs'.n_exec = obs.n_exec /\ obs'.a_sent = obs.a_sent
                 /\ to_listen' = to_listen ) ]_vars

\* the listener's half of C4 when no interrupt arrives in that step
C4_ListenerQuits ==
    [][ ( l_pc = "sent" /\ cmd = Quit /\ l_pc' # l_pc /\ obs'.interrupts = obs.interrupts )
            => ( l_pc' = "closed" /\ ~ l_open' /\ obs'.c_recv = obs.c_recv ) ]_vars

\* the agent's half of C4 alone
C4_AgentQuits ==
    [][ ( r_pc = "recv_data" /\ r_rd.pc = "return" /\ r_rd.data = Quit /\ r_pc' # r_pc )
            => ( /\ r_pc' = "closed" /\ ~ r_open'
                 /\ obs'.n_exec = obs.n_exec /\ obs'.a_sent = obs.a_sent
                 /\ to_listen' = to_listen ) ]_vars

(***************************************************************************)
(* Properties of exec_cmd inside the agent's loop (ExecSpec).              *)
(***************************************************************************)
Contains(text, part) ==
    \E i \in 1 .. Len(text) + 1 :
        /\ i + Len(part) - 1 <= Len(text)
        /\ SubSeq(text, i, i + Len(part) - 1) = part

\* the Result frame of text ret as it lies on the stream
ResultFrame(ret) == struct_pack(Len(encode_utf8(ret))) \o encode_utf8(ret)

\* the last exec_cmd call returned ret: until recv_data returns the next
\* frame, the agent is sending ret as the one Result of that call, or has
\* sent it and waits for the next Command
Answered(ret) ==
    obs.a_recv = last_exec.recv =>
    /\ r_open
    /\ \/ r_pc \in { "send_len", "send_body" } /\ res = ret /\ obs.a_sent = last_exec.sent
       \/ r_pc = "recv_data" /\ obs.a_sent = last_exec.sent + 1
    /\ r_pc = "send_body" => to_listen = struct_pack(Len(encode_utf8(ret)))
    /\ ( r_pc = "recv_data" /\ to_listen # << >> ) => to_listen = ResultFrame(ret)

\* the last call was exec_cmd(b"cd" + one character + path)
LastCd == last_exec.branch = "cd"
LastPath == Drop(decode_utf8(last_exec.data), 3)

\* C6: for a cd Command, if the path exists the current directory becomes it
\* and the Result is the success message with the new absolute path; if not,
\* the Result is the failure message with the attempted path, the directory
\* is unchanged; either way the agent sends the Result and goes on
C6_CdOutcome ==
    LastCd =>
        LET to == os_chdir(last_exec.before, LastPath)
        IN  /\ last_exec.raised = "none"
            /\ IF to # NoDir
               THEN /\ last_exec.cwd = to
                    /\ last_exec.ret = MsgChanged(to)
                    /\ Contains(last_exec.ret, to)
               ELSE /\ last_exec.cwd = last_exec.before
                    /\ last_exec.ret = strip(MsgNotFound(LastPath))
                    /\ Contains(last_exec.ret, LastPath)
            /\ cwd = last_exec.cwd
            /\ Answered(last_exec.ret)

C6_Witness ==
    /\ LastCd /\ last_exec.before = Root /\ last_exec.cwd = Tmp
    /\ r_pc = "recv_data" /\ to_listen = ResultFrame(MsgChanged(Tmp))

C6_Witness_Missing ==
    /\ LastCd /\ os_chdir(last_exec.before, LastPath) = NoDir /\ LastPath # << >>
    /\ r_pc = "recv_data" /\ to_listen # << >> /\ obs.n_exec = 2

\* C7: the current directory changes only in an exec_cmd call whose
\* os.chdir did not raise; a call that takes the shell branch and a cd that
\* fails leave it alone; every subprocess is spawned in the directory of
\* the last os.chdir that did not raise, or the initial one
C7_WorkingDirectory ==
    [][ LET ran == obs'.n_exec = obs.n_exec + 1
        IN  /\ cwd' # cwd => ( ran /\ last_exec'.branch = "cd" /\ last_exec'.changed )
            /\ ( ran /\ last_exec'.branch = "shell" ) => cwd' = cwd
            /\ ( ran /\ last_exec'.branch = "cd" /\ ~ last_exec'.changed ) => cwd' = cwd
            /\ ( ran /\ last_exec'.spawn # NoDir ) => last_exec'.spawn = obs.cd_dir ]_vars

C7_Witness ==
    /\ obs.n_exec = 2 /\ obs.cds = 1
    /\ last_exec.branch = "shell" /\ last_exec.spawn = TmpA /\ obs.cd_dir = TmpA

\* a subprocess was spawned and wrote nothing to either pipe
LastSpawned == last_exec.spawn # NoDir
LastCommand == decode_utf8(last_exec.data)

\* C8: when stdout followed by stderr is empty, the Result is the
\* "executed successfully" message naming the command, it is not empty,
\* nothing is decoded, and it is the Result the agent sends
C8_EmptyOutput ==
    ( LastSpawned /\ last_exec.out = << >> ) =>
        /\ last_exec.raised = "none"
        /\ last_exec.attempts = 0
        /\ last_exec.ret = strip(MsgDone(LastCommand))
        /\ last_exec.ret # << >>
        /\ Contains(last_exec.ret, LastCommand)
        /\ Answered(last_exec.ret)

C8_Witness ==
    /\ LastSpawned /\ last_exec.out = << >> /\ last_exec.data = << 108, 115 >>
    /\ r_pc = "recv_data" /\ to_listen = ResultFrame(MsgDone(<< 108, 115 >>))

\* C9: non-empty output valid under one of gbk, utf-8 and invalid under the
\* other is returned decoded with the valid one, whichever is the default;
\* when the default decodes it, it is the only one tried
C9_EncodingFallback ==
    ( LastSpawned /\ last_exec.out # << >> ) =>
        \A A \in { "gbk", "utf-8" } :
            LET B == IF A = "gbk" THEN "utf-8" ELSE "gbk"
            IN  /\ ( decode(last_exec.out, A) # DecodeError
                     /\ decode(last_exec.out, B) = DecodeError )
                      => /\ last_exec.raised = "none"
                         /\ last_exec.ret = strip(decode(last_exec.out, A))
                         /\ Answered(last_exec.ret)
                /\ ( last_exec.flag = A /\ decode(last_exec.out, A) # DecodeError )
                      => /\ last_exec.attempts = 1
                         /\ last_exec.ret = strip(decode(last_exec.out, A))

C9_Witness ==
    /\ LastSpawned /\ last_exec.flag = "gbk" /\ last_exec.out = << 227, 160, 160 >>
    /\ last_exec.attempts = 2 /\ last_exec.ret = << 14368 >>
    /\ r_pc = "recv_data" /\ to_listen = ResultFrame(<< 14368 >>)

\* the captured output is valid under neither encoding
NeitherDecodes ==
    /\ LastSpawned /\ last_exec.out # << >>
    /\ decode(last_exec.out, "gbk") = DecodeError
    /\ decode(last_exec.out, "utf-8") = DecodeError

\* C10: output invalid under both encodings is tried twice, then the error
\* leaves the loop: no Result frame for that Command, and nothing is
\* executed or sent afterwards
C10_DoubleFailure ==
    /\ [] ( NeitherDecodes =>
              /\ last_exec.raised = "decode"
              /\ last_exec.attempts = 2
              /\ r_pc = "crashed" /\ ~ r_open
              /\ obs.a_sent = last_exec.sent )
    /\ [][ r_pc = "crashed" =>
              /\ r_pc' = "crashed"
              /\ obs'.n_exec = obs.n_exec /\ obs'.a_sent = obs.a_sent
              /\ to_listen' = to_listen /\ last_exec' = last_exec ]_vars

C10_Witness ==
    /\ NeitherDecodes /\ last_exec.out = << 227, 160, 255 >>
    /\ r_pc = "crashed" /\ obs.n_exec = 2 /\ obs.a_sent = 1

(***************************************************************************)
(* Properties of the listener's loop (Spec).                               *)
(***************************************************************************)
\* text that is empty or made of whitespace only
IsBlank(text) == \A i \in 1 .. Len(text) : text[i] \in Whitespace

\* the step in which input() returns a line
ReadsLine == l_pc = "input" /\ ( obs'.idle # obs.idle \/ obs'.inputs # obs.inputs )

\* C11: when input() returns an empty or whitespace-only line the listener
\* writes nothing, reads nothing, keeps the connection open and is at the
\* prompt again; the payload of a Command frame it sends is never empty
C11_IdleInput ==
    /\ [][ ( ReadsLine /\ IsBlank(obs'.line) ) =>
              /\ l_pc' = "input"
              /\ l_open' = l_open
              /\ to_agent' = to_agent /\ to_listen' = to_listen
              /\ obs'.c_sent = obs.c_sent /\ obs'.c_recv = obs.c_recv
              /\ obs'.inputs = obs.inputs ]_vars
    /\ [] ( l_pc \in { "send_len", "send_body" }
              => /\ send_data_payload(Str(cmd)) # << >>
                 /\ send_data_cmd_len(Str(cmd)) # struct_pack(0) )

\* a whitespace-only line was read after a Command had been answered, and
\* the listener prompts again with the connection open
C11_Witness ==
    /\ obs.line = << 32 >> /\ obs.idle = 1 /\ obs.c_recv = 1
    /\ l_pc = "input" /\ l_open /\ to_agent = << >>


\* the Command of the line input() last returned
LineCommand == strip(obs.line)

\* C12: for a line that equals "quit" ignoring case the listener sends the
\* stripped line as one frame, and its next step closes the connection and
\* ends listen() with no receive; after any other Command its next step
\* leaves the connection open, and line 66 closes it only on such a line
C12_QuitHandling ==
    [][ /\ ( l_pc = "send_len" /\ l_pc' = "send_body" /\ r_open )
              => to_agent' = to_agent \o struct_pack(Len(encode_utf8(LineCommand)))
        /\ ( l_pc = "send_body" /\ l_pc' = "sent" /\ r_open )
              => to_agent' = to_agent \o encode_utf8(LineCommand)
        /\ ( l_pc = "sent" /\ lower(LineCommand) = Quit /\ l_pc' # l_pc )
              => ( /\ l_pc' = "closed" /\ ~ l_open'
                   /\ obs'.c_recv = obs.c_recv /\ l_rd' = l_rd /\ to_listen' = to_listen )
        /\ ( l_pc = "sent" /\ lower(LineCommand) # Quit /\ l_pc' # l_pc )
              => ( l_open' /\ l_pc' # "closed" )
        /\ l_pc' = "closed" => lower(LineCommand) = Quit ]_vars

\* the same for the steps in which no KeyboardInterrupt arrives
C12_NoInterrupt ==
    [][ obs'.interrupts = obs.interrupts =>
        /\ ( l_pc = "send_len" /\ l_pc' = "send_body" /\ r_open )
              => to_agent' = to_agent \o struct_pack(Len(encode_utf8(LineCommand)))
        /\ ( l_pc = "send_body" /\ l_pc' = "sent" /\ r_open )
              => to_agent' = to_agent \o encode_utf8(LineCommand)
        /\ ( l_pc = "sent" /\ lower(LineCommand) = Quit /\ l_pc' # l_pc )
              => ( /\ l_pc' = "closed" /\ ~ l_open'
                   /\ obs'.c_recv = obs.c_recv /\ l_rd' = l_rd /\ to_listen' = to_listen )
        /\ ( l_pc = "sent" /\ lower(LineCommand) # Quit /\ l_pc' # l_pc )
              => ( l_open' /\ l_pc' # "closed" )
        /\ l_pc' = "closed" => lower(LineCommand) = Quit ]_vars


\* C16: a KeyboardInterrupt raised while the listener waits in input()
\* writes nothing, leaves the connection open and both peers running, and
\* the listener is at the prompt again
C16_InterruptAtPrompt ==
    [][ ( l_pc = "input" /\ obs'.interrupts = obs.interrupts + 1 ) =>
            /\ l_pc' = "input"
            /\ l_open /\ l_open'
            /\ to_agent' = to_agent /\ to_listen' = to_listen
            /\ obs'.c_sent = obs.c_sent /\ obs'.c_recv = obs.c_recv
            /\ rvars' = rvars ]_vars

\* after an interrupt at the prompt the next Command was sent and answered
C16_Witness ==
    /\ obs.intr_at = "input" /\ obs.interrupts = 1
    /\ l_pc = "input" /\ l_open /\ r_open
    /\ obs.c_sent = 1 /\ obs.c_recv = 1 /\ printed # << >>


(***************************************************************************)
(* More properties of the framed channel (FrameSpec).                      *)
(***************************************************************************)
\* C13: recv_data returns more bytes than the declared length only when
\* buf_size does not divide that length; when it divides it (zero
\* included) the payload returned has at most that many bytes, whatever
\* follows the frame on the stream
C13_OverRead ==
    h_rd.pc = "return" =>
        /\ h_rd.all_size = h_N
        /\ Len(h_rd.data) > h_N => h_N % h_buf # 0
        /\ h_N % h_buf = 0 => Len(h_rd.data) <= h_N

\* a frame whose length buf_size divides was returned whole while the next
\* frame lies on the stream
C13_Witness ==
    /\ h_rd.pc = "return" /\ h_N = 2 /\ h_buf = 2 /\ h_rd.data = h_first
    /\ Len(h_queue) = 2 /\ h_i = 3
    /\ h_sock = send_data_cmd_len(NextFrame) \o send_data_payload(NextFrame)

\* a frame whose length buf_size does not divide was returned with bytes of
\* the next frame after it
C13_Witness_OverRead ==
    /\ h_rd.pc = "return" /\ h_N = 1 /\ h_buf = 3
    /\ Len(h_rd.data) = 3 /\ Take(h_rd.data, 1) = h_first
    /\ SubSeq(h_rd.data, 2, 3) = Take(send_data_cmd_len(NextFrame), 2)


(***************************************************************************)
(* More properties of exec_cmd inside the agent's loop (ExecSpec).         *)
(***************************************************************************)
\* exec_cmd was called since the last Command was written, and its payload
\* was UTF-8
LastDecoded == last_exec.flag # "none" /\ LastCommand # DecodeError

HasNul(text) == \E i \in 1 .. Len(text) : text[i] = 0

\* C15: the directory branch is taken, with no subprocess, exactly when the
\* command has at least three characters and begins with "cd", and
\* os.chdir is given the characters after the third; every other command,
\* "cd" itself included, is handed unchanged to subprocess.Popen, which
\* spawns a shell unless the command holds a NUL
C15_CdDispatch ==
    LastDecoded =>
        LET c == LastCommand
            cd == Len(c) >= 3 /\ c[1] = 99 /\ c[2] = 100
        IN  /\ last_exec.branch = "cd" <=> cd
            /\ cd => /\ last_exec.spawn = NoDir
                     /\ last_exec.arg = SubSeq(c, 4, Len(c))
                     /\ last_exec.cwd \in { last_exec.before,
                                            os_chdir(last_exec.before, SubSeq(c, 4, Len(c))) }
            /\ ~ cd => /\ last_exec.branch = "shell"
                       /\ last_exec.arg = c
                       /\ last_exec.cwd = last_exec.before
                       /\ ~ HasNul(c) => last_exec.spawn = last_exec.before

\* the two-character command "cd" was run by a shell
C15_Witness ==
    /\ last_exec.data = Cd /\ last_exec.branch = "shell" /\ last_exec.spawn # NoDir
    /\ last_exec.ret = MsgDone(Cd)

\* "cd." took the directory branch with the empty path
C15_Witness_Cd ==
    /\ last_exec.data = Cd \o << 46 >> /\ last_exec.branch = "cd"
    /\ last_exec.arg = << >> /\ last_exec.ret = strip(MsgNotFound(<< >>))


\* C19: the payload of every Result frame the agent sends has at least one
\* byte, whatever the Command and the captured output: what exec_cmd returns
\* is not empty, and no Result prefix on the stream declares length zero
C19_NonEmptyResult ==
    /\ ( last_exec.flag # "none" /\ last_exec.raised = "none" ) => last_exec.ret # << >>
    /\ r_pc \in { "send_len", "send_body" } => send_data_payload(Str(res)) # << >>
    /\ Len(to_listen) >= PrefixLen => Take(to_listen, PrefixLen) # struct_pack(0)


(***************************************************************************)
(* Properties of the two peers together (Spec).                            *)
(***************************************************************************)
\* recv_data has returned to the agent a payload on whose text the
\* listener's test of line 65 ends the session
QuitFrameReturned ==
    r_pc = "recv_data" /\ r_rd.pc = "return" /\ is_quit(decode_utf8(r_rd.data))

\* C18: the agent's step on a frame that made the listener end the session
\* (quit in any letter case) leaves its loop and closes, with no exec_cmd
\* and no Result; and once the listener has closed on a quit, in a session
\* without interrupts and short reads, the agent does not end with an error
C18_TerminationAgreement ==
    /\ [][ ( QuitFrameReturned /\ r_pc' # r_pc ) =>
              /\ r_pc' = "closed" /\ ~ r_open'
              /\ obs'.n_exec = obs.n_exec /\ obs'.a_sent = obs.a_sent
              /\ to_listen' = to_listen ]_vars
    /\ [] ( ( l_pc = "closed" /\ obs.interrupts = 0 /\ obs.short = 0 )
              => r_pc # "crashed" )


IsPrefix(s, t) == Len(s) <= Len(t) /\ SubSeq(t, 1, Len(s)) = s

\* C17: the payloads the agent has executed are, in order and byte for
\* byte, the first of the payloads of the non-quit Commands the listener has
\* sent
C17_CommandIntegrity == IsPrefix(obs.a_cmds, obs.c_cmds)

\* the same for the sessions in which every read returned all the bytes that
\* were there, no KeyboardInterrupt arrived and the operator's quit, if any,
\* was in lower case
C17_WholeReads ==
    ( obs.short = 0 /\ obs.interrupts = 0 /\ ( is_quit(cmd) => cmd = Quit ) )
        => C17_CommandIntegrity


\* both ends of the connection are open
ConnectionUp == l_open /\ r_open

\* C14: while the connection stays up, the n-th non-quit Command the
\* listener sent is followed by the n-th Result printed, and the listener is
\* not at the prompt with a Command it sent still unanswered (for the
\* prompt, an interrupt, if any, arrived while the listener was blocked in
\* input() or in recv_data)
C14_ResponseLiveness ==
    /\ \A n \in 1 .. MaxCmds :
          ( Len(obs.c_cmds) >= n ) ~> ( obs.c_print >= n \/ ~ ConnectionUp )
    /\ [] ( ( /\ l_pc = "input" /\ ConnectionUp
              /\ obs.intr_at \in { "none", "input", "recv_data" } )
                => obs.c_print >= Len(obs.c_cmds) )

\* without a KeyboardInterrupt the listener is never at the prompt with a
\* Command it sent still unanswered
C14_NoInterrupt ==
    ( l_pc = "input" /\ ConnectionUp /\ obs.interrupts = 0 )
        => obs.c_print >= Len(obs.c_cmds)

====
